---- MODULE Spec2Model ----
(***************************************************************************)
(* A model of fetch_youtube_analytics.py: one run of main(), from the      *)
(* OAuth step through the five derivations to the export of the JSON       *)
(* document, together with the pure derivations themselves.                *)
(*                                                                         *)
(* Conventions.                                                            *)
(*  - Text is a sequence of one-character strings, so that upper(), the    *)
(*    substring test `in` and the slice [:10] are computed, not assumed.   *)
(*  - A table row is a sequence; Col(row, i) is Python's row[i].           *)
(*  - A calendar date 'YYYY-MM-DD' is the tuple <<year, month, day>>; the  *)
(*    order of the zero-padded strings is the lexicographic order of the   *)
(*    tuples.                                                              *)
(*  - A number rounded to one decimal is held as its count of tenths.      *)
(*  - A quotient the code computes in floating point is held exactly as    *)
(*    [num, den]; where the code rounds it, every result the double can    *)
(*    give is kept (see RoundChoices).                                     *)
(***************************************************************************)
EXTENDS Integers, Sequences, FiniteSets, TLC

VARIABLES
    pc,               \* position of the run inside main()
    tokenFile,        \* content of token.pickle: NoFile or a credential
    credentialsFile,  \* whether credentials.json exists
    creds,            \* main's creds: NoCreds until authenticate() returns
    exitStatus,       \* <<>> while running, <<status>> once the process ended
    requests,         \* every network request issued so far, in order
    api,              \* what each answered request returned (by request name)
    metrics_data,     \* main's metrics_data
    ctr,              \* main's ctr
    sources,          \* fetch_traffic_sources' sources right after line 160
    traffic_sources,  \* main's traffic_sources
    top_video,        \* main's top_video
    video_launches,   \* main's video_launches
    outputFile        \* content of youtube_analytics.json: NoFile or the report

vars == <<pc, tokenFile, credentialsFile, creds, exitStatus, requests, api,
          metrics_data, ctr, sources, traffic_sources, top_video,
          video_launches, outputFile>>

-----------------------------------------------------------------------------
(* Bounds of the model                                                     *)

\* longest daily series the report pipeline (Spec) is run on
MaxDays == 3
\* longest daily series the chart derivation alone (SpecChart) is run on
MaxRows == 32
\* the generated daily series vary gained/lost with seeds 0..MaxSeed
MaxSeed == 2
\* view counts 0..MaxViews per traffic source type
MaxViews == 2
\* rows in a click-through-rate response
MaxCtrRows == 3
\* items in a search response
MaxItems == 3

-----------------------------------------------------------------------------
(* Values                                                                  *)

NoFile == [exists |-> FALSE]
NoCreds == [none |-> TRUE]
Unset == [unset |-> TRUE]
Failure == [error |-> TRUE]

Min(a, b) == IF a <= b THEN a ELSE b
Max(a, b) == IF a >= b THEN a ELSE b

\* Python's row[i] (0-based)
Col(row, i) == row[i + 1]

\* Python's response.get('rows', [])
GetRows(response) == IF "rows" \in DOMAIN response THEN response.rows ELSE <<>>

RECURSIVE Sum(_)
\* Python's sum() of a list of numbers
Sum(values) == IF values = <<>> THEN 0 ELSE Head(values) + Sum(Tail(values))

\* Python's sum(row[i] for row in rows)
SumCol(rows, i) == Sum([k \in 1..Len(rows) |-> Col(rows[k], i)])

(* Python's round() of the double nearest to num/den (num >= 0, den > 0),  *)
(* as the set of results it can have.  Off a tie the double's error is far *)
(* too small to change the result.  On a decimal tie the double lies       *)
(* exactly on it and round() goes to the even neighbour (1/8*100 = 12.5    *)
(* gives 12), or it lies just above or below (11/40*100 =                  *)
(* 27.500000000000004 gives 28, 23/40*100 = 57.49999999999999 gives 57):   *)
(* both neighbours are kept.                                               *)
RoundChoices(num, den) ==
    LET q == num \div den
        r == num % den
    IN  IF 2 * r < den THEN {q}
        ELSE IF 2 * r > den THEN {q + 1}
        ELSE {q, q + 1}

-----------------------------------------------------------------------------
(* Dates                                                                   *)

MonthAbbr == <<"Jan", "Feb", "Mar", "Apr", "May", "Jun",
               "Jul", "Aug", "Sep", "Oct", "Nov", "Dec">>
DaysInMonth == <<31, 28, 31, 30, 31, 30, 31, 31, 30, 31, 30, 31>>

\* first day of the reporting window (a day of a non-leap year)
StartDate == <<2025, 10, 15>>

RECURSIVE AddDays(_, _)
AddDays(date, k) ==
    IF k = 0 THEN date
    ELSE IF date[3] < DaysInMonth[date[2]]
         THEN AddDays(<<date[1], date[2], date[3] + 1>>, k - 1)
    ELSE IF date[2] < 12 THEN AddDays(<<date[1], date[2] + 1, 1>>, k - 1)
    ELSE AddDays(<<date[1] + 1, 1, 1>>, k - 1)

\* datetime.strptime(date_str, '%Y-%m-%d')
Strptime(date_str) ==
    [year |-> date_str[1], month |-> date_str[2], day |-> date_str[3]]

\* date_obj.strftime('%b %d'): abbreviated month name and day of month
StrftimeMonthDay(date_obj) == <<MonthAbbr[date_obj.month], date_obj.day>>

\* pub_datetime.strftime('%Y-%m-%d')
StrftimeIsoDate(date_obj) == <<date_obj.year, date_obj.month, date_obj.day>>

\* order of two 'YYYY-MM-DD' strings
DateLeq(a, b) ==
    \/ a[1] < b[1]
    \/ a[1] = b[1] /\ a[2] < b[2]
    \/ a[1] = b[1] /\ a[2] = b[2] /\ a[3] <= b[3]

-----------------------------------------------------------------------------
(* authenticate()                                                          *)

\* a pickled credential: valid means it holds a token that has not expired
Credential(valid, expired, refresh_token) ==
    [exists |-> TRUE, valid |-> valid, expired |-> expired,
     refresh_token |-> refresh_token]

FreshCredential == Credential(TRUE, FALSE, TRUE)

TokenFiles ==
    {NoFile} \cup
    { Credential(v, e, r) : v \in BOOLEAN, e \in {FALSE}, r \in BOOLEAN } \cup
    { Credential(FALSE, TRUE, r) : r \in BOOLEAN }

\* line 38: `not creds or not creds.valid`
NeedsNewCredentials(c) == ~c.exists \/ ~c.valid
\* line 39: `creds and creds.expired and creds.refresh_token`
RefreshableUnexpired(c) == c.exists /\ c.refresh_token
Refreshable(c) == c.exists /\ c.expired /\ c.refresh_token

\* an uncaught exception or exit(1) ends the process with status 1
Die ==
    /\ pc' = "exited"
    /\ exitStatus' = <<1>>

-----------------------------------------------------------------------------
(* Text                                                                    *)

LowerLetters == <<"a", "b", "c", "d", "e", "f", "g", "h", "i", "j", "k", "l",
                  "m", "n", "o", "p", "q", "r", "s", "t", "u", "v", "w", "x",
                  "y", "z">>
UpperLetters == <<"A", "B", "C", "D", "E", "F", "G", "H", "I", "J", "K", "L",
                  "M", "N", "O", "P", "Q", "R", "S", "T", "U", "V", "W", "X",
                  "Y", "Z">>

UpperChar(c) ==
    IF \E i \in 1..Len(LowerLetters) : LowerLetters[i] = c
    THEN UpperLetters[CHOOSE i \in 1..Len(LowerLetters) : LowerLetters[i] = c]
    ELSE c

\* str.upper()
Upper(s) == [i \in 1..Len(s) |-> UpperChar(s[i])]

\* Python's `sub in s` for strings
Contains(sub, s) ==
    \E i \in 1..(Len(s) - Len(sub) + 1) : SubSeq(s, i, i + Len(sub) - 1) = sub

\* Python's s[:n]
Prefix(s, n) == SubSeq(s, 1, Min(n, Len(s)))

-----------------------------------------------------------------------------
(* fetch_click_through_rate                                                *)

\* the fallback 4.8
DefaultCtr == [num |-> 48, den |-> 10]

\* columns of a row of the query of lines 94-101: the dimension, then the
\* metrics in the order they are asked for
CtrColumns == <<"day", "views", "cardImpressions", "cardClicks", "cardClickRate">>

fetch_click_through_rate(response) ==
    IF response = Failure THEN DefaultCtr
    ELSE LET rows == GetRows(response)
             ctr_values == [k \in 1..Len(rows) |->
                              IF Len(rows[k]) > 3 THEN Col(rows[k], 3) ELSE 0]
         IN  IF rows # <<>>
             THEN [num |-> Sum(ctr_values), den |-> Len(ctr_values)]
             ELSE DefaultCtr

\* round(x, 1) of the quotient x, in tenths
RoundTenths(x) == RoundChoices(x.num * 10, x.den)

-----------------------------------------------------------------------------
(* fetch_traffic_sources                                                   *)

\* the keys of `sources`, in the dict's insertion order (lines 137-142)
Buckets == <<"search", "browse", "external", "other">>

T_SEARCH == <<"S", "E", "A", "R", "C", "H">>
T_YT_SEARCH == <<"Y", "T", "_", "S", "E", "A", "R", "C", "H">>
T_BROWSE == <<"B", "R", "O", "W", "S", "E">>
T_SUGGESTED == <<"S", "U", "G", "G", "E", "S", "T", "E", "D">>
T_RELATED == <<"R", "E", "L", "A", "T", "E", "D">>
T_EXTERNAL == <<"E", "X", "T", "E", "R", "N", "A", "L">>
T_EXT == <<"E", "X", "T">>

\* lines 150-157: the bucket a source type is counted in
BucketOf(source_type) ==
    LET u == Upper(source_type)
    IN  IF Contains(T_SEARCH, u) \/ Contains(T_YT_SEARCH, u) THEN "search"
        ELSE IF Contains(T_BROWSE, u) \/ Contains(T_SUGGESTED, u)
                \/ Contains(T_RELATED, u) THEN "browse"
        ELSE IF Contains(T_EXTERNAL, u) \/ Contains(T_EXT, u) THEN "external"
        ELSE "other"

\* the views of the rows counted in bucket b
BucketViews(rows, b) ==
    Sum([k \in 1..Len(rows) |->
            IF BucketOf(Col(rows[k], 0)) = b THEN Col(rows[k], 1) ELSE 0])

(* lines 134-160: every value `sources` can have after the rounding.  A    *)
(* bucket's percentage is the sum of views / total_views * 100 over its    *)
(* rows, 0 for every row when total_views is 0.                            *)
RoundedSources(rows) ==
    LET total_views == SumCol(rows, 1)
        choices(b) == IF total_views > 0
                      THEN RoundChoices(BucketViews(rows, b) * 100, total_views)
                      ELSE {0}
    IN  [search : choices("search"), browse : choices("browse"),
         external : choices("external"), other : choices("other")]

\* sum(sources.values())
Total(s) == s.search + s.browse + s.external + s.other

\* max(sources, key=sources.get): the first key, in the dict's order, whose
\* value no other key exceeds
MaxKeyLast(s) ==
    Buckets[CHOOSE i \in 1..Len(Buckets) :
                /\ \A j \in 1..Len(Buckets) : s[Buckets[j]] <= s[Buckets[i]]
                /\ \A j \in (i + 1)..Len(Buckets) : s[Buckets[j]] < s[Buckets[i]]]
MaxKey(s) ==
    Buckets[CHOOSE i \in 1..Len(Buckets) :
                /\ \A j \in 1..Len(Buckets) : s[Buckets[j]] <= s[Buckets[i]]
                /\ \A j \in 1..(i - 1) : s[Buckets[j]] < s[Buckets[i]]]

\* lines 163-166
AdjustNever(s) == s
AdjustToHundred(s) ==
    LET total == Total(s)
    IN  IF total # 100
        THEN [s EXCEPT ![MaxKey(s)] = @ + (100 - total)]
        ELSE s

\* line 173
DefaultSources == [search |-> 42, browse |-> 31, external |-> 18, other |-> 9]

-----------------------------------------------------------------------------
(* fetch_top_video                                                         *)

\* Python's response.get('items'), an absent key read as the empty list
GetItems(response) ==
    IF "items" \in DOMAIN response THEN response.items ELSE <<>>

\* 'No videos in this period'
NoVideosTitle ==
    <<"N", "o", " ", "v", "i", "d", "e", "o", "s", " ", "i", "n", " ", "t", "h", "i", "s", " ", "p", "e", "r", "i", "o", "d">>
\* 'Unknown Title'
UnknownTitle == <<"U", "n", "k", "n", "o", "w", "n", " ", "T", "i", "t", "l", "e">>
\* 'Video '
VideoPrefix == <<"V", "i", "d", "e", "o", " ">>

\* lines 192-197
NoVideoSummary ==
    [title |-> NoVideosTitle, views |-> 0, watch_hours |-> 0, likes |-> 0]

\* lines 205-213: the title from the answer of the snippet lookup
TitleWholeId(video_id, video_response) ==
    IF video_response = Failure THEN VideoPrefix \o video_id
    ELSE IF GetItems(video_response) # <<>>
         THEN GetItems(video_response)[1].snippet.title
         ELSE UnknownTitle
TitleOf(video_id, video_response) ==
    IF video_response = Failure THEN VideoPrefix \o Prefix(video_id, 10)
    ELSE IF GetItems(video_response) # <<>>
         THEN GetItems(video_response)[1].snippet.title
         ELSE UnknownTitle

\* lines 199-202 and 215-220, watch_hours being one result of the rounding
VideoSummary(row, title, watch_hours) ==
    [title |-> title,
     views |-> Col(row, 1),
     watch_hours |-> watch_hours,
     likes |-> IF Len(row) > 3 THEN Col(row, 3) ELSE 0]

-----------------------------------------------------------------------------
(* calculate_subscriber_growth_chart                                       *)

\* line 234
StepFifth(n) == Max(1, n \div 5)
StepRoundedUp(n) == (n \div 6) + 1
Step(n) == Max(1, n \div 6)

\* Python's rows[::step]
EveryNth(rows, step) ==
    [i \in 1..((Len(rows) + step - 1) \div step) |-> rows[(i - 1) * step + 1]]

\* lines 243-245
NetGrowth(row) ==
    (IF Len(row) > 4 THEN Col(row, 4) ELSE 0)
        - (IF Len(row) > 5 THEN Col(row, 5) ELSE 0)

calculate_subscriber_growth_chart(data) ==
    LET rows == GetRows(data)
    IN  IF rows = <<>> THEN [labels |-> <<>>, values |-> <<>>]
        ELSE LET selected_rows == EveryNth(rows, Step(Len(rows)))
             IN  [labels |-> [i \in 1..Len(selected_rows) |->
                                StrftimeMonthDay(Strptime(Col(selected_rows[i], 0)))],
                  values |-> [i \in 1..Len(selected_rows) |->
                                NetGrowth(selected_rows[i])]]

-----------------------------------------------------------------------------
(* fetch_recent_videos                                                     *)

Digits == <<"0", "1", "2", "3", "4", "5", "6", "7", "8", "9">>

RECURSIVE ParseInt(_)
\* int() of a string of decimal digits
ParseInt(text) ==
    IF text = <<>> THEN 0
    ELSE ParseInt(SubSeq(text, 1, Len(text) - 1)) * 10
            + (CHOOSE d \in 0..9 : Digits[d + 1] = text[Len(text)])

\* int(stats.get(key, 0))
StatCount(stats, key) ==
    IF key \in DOMAIN stats THEN ParseInt(stats[key]) ELSE 0

\* datetime.strptime(published_at, '%Y-%m-%dT%H:%M:%SZ')
StrptimeRfc3339(published_at) ==
    [year |-> published_at[1], month |-> published_at[2],
     day |-> published_at[3], hour |-> published_at[4],
     minute |-> published_at[5], second |-> published_at[6]]

\* lines 295-306
Launch(item, stats) ==
    LET pub_datetime == StrptimeRfc3339(item.snippet.publishedAt)
    IN  [date |-> StrftimeMonthDay(pub_datetime),
         full_date |-> StrftimeIsoDate(pub_datetime),
         title |-> item.snippet.title,
         views |-> StatCount(stats, "viewCount"),
         likes |-> StatCount(stats, "likeCount"),
         video_id |-> item.id.videoId]

RECURSIVE Launches(_, _)
\* lines 279-306: one entry per item whose statistics lookup has an item
Launches(items, video_responses) ==
    IF items = <<>> THEN <<>>
    ELSE LET rest == Launches(SubSeq(items, 1, Len(items) - 1),
                              SubSeq(video_responses, 1, Len(items) - 1))
             video_response == video_responses[Len(items)]
         IN  IF video_response.items # <<>>
             THEN Append(rest, Launch(items[Len(items)],
                                      video_response.items[1].statistics))
             ELSE rest

RECURSIVE InsertByFullDate(_, _)
InsertByFullDate(sorted, x) ==
    IF sorted = <<>> THEN <<x>>
    ELSE IF DateLeq(Head(sorted).full_date, x.full_date)
         THEN <<Head(sorted)>> \o InsertByFullDate(Tail(sorted), x)
         ELSE <<x>> \o sorted

RECURSIVE InsertionSort(_)
InsertionSort(list) ==
    IF list = <<>> THEN <<>>
    ELSE InsertByFullDate(InsertionSort(SubSeq(list, 1, Len(list) - 1)),
                          list[Len(list)])

\* line 309: video_launches.sort(key=lambda x: x['full_date']), a stable sort
ApiOrder(list) == list
SortByFullDate(list) == InsertionSort(list)

\* lines 264-316, given the answer of the search and of each statistics
\* lookup: any exception gives the empty list
fetch_recent_videos(search_response, video_responses) ==
    IF \/ search_response = Failure
       \/ \E k \in 1..Len(video_responses) : video_responses[k] = Failure
    THEN <<>>
    ELSE SortByFullDate(Launches(GetItems(search_response), video_responses))

-----------------------------------------------------------------------------
(* What the two APIs can answer                                            *)

\* a response without a 'rows' (or 'items') key
NoRowsKey == [kind |-> "youtubeAnalytics#resultTable"]
NoItemsKey == [kind |-> "youtube#listResponse"]

\* all sequences of length 0..n over the set S
SeqsUpTo(S, n) == UNION { [1..k -> S] : k \in 0..n }

\* the metrics of one day: <<views, estimatedMinutesWatched,
\* averageViewDuration, subscribersGained, subscribersLost>>
DayProfiles == { <<10, 90, 120, 3, 1>>, <<20, 45, 95, 0, 2>> }

\* the answers of the daily metrics query (lines 77-84): one row per day, in
\* day order, of the days from StartDate on
MetricsResponses(n) ==
    {Failure, NoRowsKey} \cup
    { [rows |-> [i \in 1..Len(days) |-> <<AddDays(StartDate, i - 1)>> \o days[i]]] :
        days \in SeqsUpTo(DayProfiles, n) }

\* a daily series of n days whose gained and lost columns follow the seeds
SeededSeries(n, a, b) ==
    [rows |-> [i \in 1..n |->
        <<AddDays(StartDate, i - 1), 10 + i, 30 + i, 100 + i,
          (a * i + b) % 5, (b * i + a) % 3>>]]

SeriesResponses ==
    { SeededSeries(n, a, b) : n \in 0..MaxRows, a \in 0..MaxSeed, b \in 0..MaxSeed }

\* one day of the card query, after the day: <<views, cardImpressions,
\* cardClicks, cardClickRate>>, the rate being clicks / impressions
CardProfiles ==
    { <<10, 0, 0, 0>>, <<10, 1, 0, 0>>, <<10, 1, 1, 1>>, <<10, 2, 0, 0>>,
      <<10, 2, 2, 1>> }

CtrResponses(profiles, n) ==
    {Failure, NoRowsKey} \cup
    { [rows |-> [i \in 1..Len(days) |-> <<AddDays(StartDate, i - 1)>> \o days[i]]] :
        days \in SeqsUpTo(profiles, n) }

\* insightTrafficSourceType values: four the API reports, and a lower-case
\* one that only upper() makes match
SourceTypes ==
    << <<"Y", "T", "_", "S", "E", "A", "R", "C", "H">>,
       <<"R", "E", "L", "A", "T", "E", "D", "_", "V", "I", "D", "E", "O">>,
       <<"E", "X", "T", "_", "U", "R", "L">>,
       <<"S", "U", "B", "S", "C", "R", "I", "B", "E", "R">>,
       <<"s", "u", "g", "g", "e", "s", "t", "e", "d">> >>

\* view counts that round to 41, 31, 19 and 8 percent of their total
ExampleViews == {413, 313, 193, 81}

Absent == 0 - 1

RECURSIVE RowsByViews(_, _)
(* The rows of the source types in `left` (indices into SourceTypes) whose *)
(* view count v[i] is not Absent, by descending views as sort='-views'     *)
(* asks, equal counts in the order of SourceTypes.                         *)
RowsByViews(v, left) ==
    IF left = {} THEN <<>>
    ELSE LET i == CHOOSE i \in left :
                     \A j \in left : v[j] < v[i] \/ (v[j] = v[i] /\ i <= j)
         IN  IF v[i] = Absent THEN <<>>
             ELSE <<<<SourceTypes[i], v[i]>>>> \o RowsByViews(v, left \ {i})

TrafficResponses(types, views) ==
    {Failure, NoRowsKey} \cup
    { [rows |-> RowsByViews(v, types)] : v \in [types -> views \cup {Absent}] }

VideoIds == { <<"d", "Q", "w", "4", "w", "9", "W", "g", "X", "c", "Q">>,
              <<"9", "b", "Z", "k", "p", "7", "q", "1", "9", "f", "0">> }

TitleA == <<"L", "a", "u", "n", "c", "h", " ", "d", "a", "y">>

TopResponses(ids, views, minutes, likes) ==
    {Failure, NoRowsKey, [rows |-> <<>>]} \cup
    { [rows |-> <<<<id, v, m, l>>>>] :
        id \in ids, v \in views, m \in minutes, l \in likes } \cup
    { [rows |-> <<<<id, v, m>>>>] : id \in ids, v \in views, m \in minutes }

SnippetResponses ==
    {Failure, NoItemsKey, [items |-> <<>>],
     [items |-> <<[snippet |-> [title |-> TitleA]]>>]}

\* items of a search answer: <<videoId, publishedAt>>, publishedAt being
\* <<year, month, day, hour, minute, second>>
SearchItem(id, published_at) ==
    [id |-> [videoId |-> id],
     snippet |-> [publishedAt |-> published_at, title |-> TitleA]]

\* two videos published on the same day, the later listed first
SameDayPool ==
    { SearchItem(<<"a", "a", "a", "a", "a", "a", "a", "a", "a", "a", "1">>, <<2025, 10, 20, 17, 30, 0>>),
      SearchItem(<<"a", "a", "a", "a", "a", "a", "a", "a", "a", "a", "2">>, <<2025, 10, 20, 8, 0, 0>>) }

VideoPool ==
    SameDayPool \cup
    { SearchItem(<<"a", "a", "a", "a", "a", "a", "a", "a", "a", "a", "3">>, <<2025, 11, 2, 9, 15, 0>>),
      SearchItem(<<"a", "a", "a", "a", "a", "a", "a", "a", "a", "a", "4">>, <<2025, 10, 16, 23, 59, 59>>) }

\* answers of the search: the items in any order, no video twice
SearchResponses(pool, n) ==
    {Failure, NoItemsKey} \cup
    { [items |-> items] :
        items \in { q \in SeqsUpTo(pool, n) :
                       \A i, j \in 1..Len(q) : q[i] = q[j] => i = j } }

StatisticsResponses ==
    {Failure, [items |-> <<>>],
     [items |-> <<[statistics |-> [viewCount |-> <<"1", "2">>,
                                   likeCount |-> <<"3">>]]>>],
     [items |-> <<[statistics |-> [viewCount |-> <<"7">>]]>>]}

-----------------------------------------------------------------------------
(* The run of main()                                                       *)

NoAnswers ==
    [metrics |-> Unset, ctr |-> Unset, traffic |-> Unset, top |-> Unset,
     snippet |-> Unset, search |-> Unset, statistics |-> <<>>]

Init ==
    /\ pc = "authenticate"
    /\ tokenFile \in TokenFiles
    /\ credentialsFile \in BOOLEAN
    /\ creds = NoCreds
    /\ exitStatus = <<>>
    /\ requests = <<>>
    /\ api = NoAnswers
    /\ metrics_data = Unset
    /\ ctr = Unset
    /\ sources = Unset
    /\ traffic_sources = Unset
    /\ top_video = Unset
    /\ video_launches = <<>>
    /\ outputFile = NoFile

derived == <<metrics_data, ctr, sources, traffic_sources, top_video,
             video_launches>>

\* lines 28-63, called at line 325
Authenticate ==
    /\ pc = "authenticate"
    /\ IF ~NeedsNewCredentials(tokenFile)
       THEN /\ creds' = tokenFile
            /\ pc' = "fetch_channel_metrics"
            /\ UNCHANGED <<tokenFile, exitStatus, requests>>
       ELSE IF Refreshable(tokenFile)
       THEN /\ requests' = Append(requests, "oauth2:refresh")
            /\ \/ /\ creds' = FreshCredential
                  /\ tokenFile' = FreshCredential
                  /\ pc' = "fetch_channel_metrics"
                  /\ UNCHANGED exitStatus
               \/ Die /\ UNCHANGED <<creds, tokenFile>>
       ELSE IF ~credentialsFile
       THEN Die /\ UNCHANGED <<creds, tokenFile, requests>>
       ELSE /\ requests' = Append(requests, "oauth2:authorize")
            /\ \/ /\ creds' = FreshCredential
                  /\ tokenFile' = FreshCredential
                  /\ pc' = "fetch_channel_metrics"
                  /\ UNCHANGED exitStatus
               \/ Die /\ UNCHANGED <<creds, tokenFile>>
    /\ UNCHANGED <<credentialsFile, api, derived, outputFile>>

\* lines 73-86, called at line 336: an error of the query is not caught
FetchChannelMetrics(Responses) ==
    /\ pc = "fetch_channel_metrics"
    /\ \E response \in Responses :
        /\ requests' = Append(requests, "analytics:day")
        /\ api' = [api EXCEPT !.metrics = response]
        /\ IF response = Failure
           THEN Die /\ UNCHANGED metrics_data
           ELSE /\ metrics_data' = response
                /\ pc' = "fetch_click_through_rate"
                /\ UNCHANGED exitStatus
    /\ UNCHANGED <<tokenFile, credentialsFile, creds, ctr, sources,
                   traffic_sources, top_video, video_launches, outputFile>>

\* lines 89-116, called at line 337
FetchClickThroughRate(Responses) ==
    /\ pc = "fetch_click_through_rate"
    /\ \E response \in Responses :
        /\ requests' = Append(requests, "analytics:cards")
        /\ api' = [api EXCEPT !.ctr = response]
        /\ ctr' = fetch_click_through_rate(response)
    /\ pc' = "fetch_traffic_sources"
    /\ UNCHANGED <<tokenFile, credentialsFile, creds, exitStatus, metrics_data,
                   sources, traffic_sources, top_video, video_launches,
                   outputFile>>

\* lines 119-173, called at line 338
FetchTrafficSources(Responses) ==
    /\ pc = "fetch_traffic_sources"
    /\ \E response \in Responses :
        /\ requests' = Append(requests, "analytics:traffic")
        /\ api' = [api EXCEPT !.traffic = response]
        /\ IF response = Failure
           THEN /\ traffic_sources' = DefaultSources
                /\ UNCHANGED sources
           ELSE \E rounded \in RoundedSources(GetRows(response)) :
                /\ sources' = rounded
                /\ traffic_sources' = AdjustToHundred(rounded)
    /\ pc' = "fetch_top_video"
    /\ UNCHANGED <<tokenFile, credentialsFile, creds, exitStatus, metrics_data,
                   ctr, top_video, video_launches, outputFile>>

\* lines 176-220, called at line 339: an error of the analytics query is not
\* caught, an error of the snippet lookup is
FetchTopVideo(Responses, VideoResponses) ==
    /\ pc = "fetch_top_video"
    /\ \E response \in Responses :
        IF response = Failure
        THEN /\ requests' = Append(requests, "analytics:top")
             /\ api' = [api EXCEPT !.top = response]
             /\ Die
             /\ UNCHANGED top_video
        ELSE IF GetRows(response) = <<>>
        THEN /\ requests' = Append(requests, "analytics:top")
             /\ api' = [api EXCEPT !.top = response]
             /\ top_video' = NoVideoSummary
             /\ pc' = "fetch_recent_videos"
             /\ UNCHANGED exitStatus
        ELSE \E video_response \in VideoResponses :
             LET row == GetRows(response)[1]
             IN  /\ requests' = requests \o <<"analytics:top", "data:snippet">>
                 /\ api' = [api EXCEPT !.top = response,
                                       !.snippet = video_response]
                 /\ \E watch_hours \in RoundChoices(Col(row, 2) * 10, 60) :
                        top_video' = VideoSummary(
                            row, TitleOf(Col(row, 0), video_response), watch_hours)
                 /\ pc' = "fetch_recent_videos"
                 /\ UNCHANGED exitStatus
    /\ UNCHANGED <<tokenFile, credentialsFile, creds, metrics_data, ctr,
                   sources, traffic_sources, video_launches, outputFile>>

\* the statistics lookups issued: one per item, up to the first that fails
Issued(video_responses) ==
    IF \E k \in 1..Len(video_responses) : video_responses[k] = Failure
    THEN SubSeq(video_responses, 1,
                CHOOSE k \in 1..Len(video_responses) :
                    /\ video_responses[k] = Failure
                    /\ \A j \in 1..(k - 1) : video_responses[j] # Failure)
    ELSE video_responses

\* lines 260-316, called at line 340
FetchRecentVideos(Responses, VideoResponses) ==
    /\ pc = "fetch_recent_videos"
    /\ \E search_response \in Responses :
        \E answers \in [1..Len(IF search_response = Failure THEN <<>>
                                ELSE GetItems(search_response))
                            -> VideoResponses] :
        LET video_responses == Issued(answers)
        IN  /\ requests' = requests \o <<"data:search">>
                    \o [k \in 1..Len(video_responses) |-> "data:statistics"]
            /\ api' = [api EXCEPT !.search = search_response,
                                  !.statistics = video_responses]
            /\ video_launches' =
                    fetch_recent_videos(search_response, video_responses)
    /\ pc' = "export"
    /\ UNCHANGED <<tokenFile, credentialsFile, creds, exitStatus, metrics_data,
                   ctr, sources, traffic_sources, top_video, outputFile>>

\* line 349
FirstDuration(rows) == IF rows # <<>> THEN Col(rows[1], 3) ELSE 0
LastDuration(rows) == IF rows # <<>> THEN Col(rows[Len(rows)], 3) ELSE 0

\* lines 343-371: the report, given the two rounded values
Report(total_watch_hours, click_through_rate) ==
    LET rows == GetRows(metrics_data)
    IN  [exists |-> TRUE,
         total_watch_hours |-> total_watch_hours,
         avg_view_duration |-> LastDuration(rows),
         duration_change |-> "None",
         click_through_rate |-> click_through_rate,
         ctr_change |-> "None",
         subscribers_gained |-> SumCol(rows, 4),
         subscribers_lost |-> SumCol(rows, 5),
         subscriber_growth_chart |->
             calculate_subscriber_growth_chart(metrics_data),
         traffic_sources |-> traffic_sources,
         best_video |-> top_video,
         video_launches |-> video_launches]

\* lines 343-385: the report is written and main returns
Export ==
    /\ pc = "export"
    /\ \E total_watch_hours \in
            RoundChoices(SumCol(GetRows(metrics_data), 2) * 10, 60) :
        \E click_through_rate \in RoundTenths(ctr) :
            outputFile' = Report(total_watch_hours, click_through_rate)
    /\ pc' = "exited"
    /\ exitStatus' = <<0>>
    /\ UNCHANGED <<tokenFile, credentialsFile, creds, requests, api, derived>>

CardDays == { <<10, 1, 1, 1>>, <<10, 2, 2, 1>> }

\* the answers a whole run draws from
RunMetrics == MetricsResponses(MaxDays)
RunCards == CtrResponses(CardDays, 1)
RunTraffic == TrafficResponses({1, 3}, {1})
RunTop == TopResponses({CHOOSE id \in VideoIds : TRUE}, {5}, {90}, {2})
RunSnippets == {Failure, [items |-> <<[snippet |-> [title |-> TitleA]]>>]}
RunSearch == SearchResponses(SameDayPool, 1)
RunStatistics == StatisticsResponses \ {[items |-> <<>>]}

Next ==
    \/ Authenticate
    \/ FetchChannelMetrics(RunMetrics)
    \/ FetchClickThroughRate(RunCards)
    \/ FetchTrafficSources(RunTraffic)
    \/ FetchTopVideo(RunTop, RunSnippets)
    \/ FetchRecentVideos(RunSearch, RunStatistics)
    \/ Export

Spec == Init /\ [][Next]_vars

-----------------------------------------------------------------------------
(* The derivations one at a time.  Each specification starts the run at    *)
(* the call of one derivation, after an authentication that succeeded and  *)
(* earlier derivations that all took their empty or fallback path, and     *)
(* gives that derivation a wider range of answers than Spec does.          *)

Positions == <<"fetch_channel_metrics", "fetch_click_through_rate",
               "fetch_traffic_sources", "fetch_top_video",
               "fetch_recent_videos", "export">>

RequestOrder == <<"analytics:day", "analytics:cards", "analytics:traffic",
                  "analytics:top", "data:search">>

\* the state at Positions[k] of a run whose daily metrics query answered
\* `metrics` and whose other queries so far failed or found nothing
At(k, metrics) ==
    /\ pc = Positions[k]
    /\ tokenFile = FreshCredential
    /\ credentialsFile = TRUE
    /\ creds = FreshCredential
    /\ exitStatus = <<>>
    /\ requests = SubSeq(RequestOrder, 1, k - 1)
    /\ api = [metrics |-> IF k > 1 THEN metrics ELSE Unset,
              ctr |-> IF k > 2 THEN Failure ELSE Unset,
              traffic |-> IF k > 3 THEN Failure ELSE Unset,
              top |-> IF k > 4 THEN [rows |-> <<>>] ELSE Unset,
              snippet |-> Unset,
              search |-> IF k > 5 THEN Failure ELSE Unset,
              statistics |-> <<>>]
    /\ metrics_data = IF k > 1 THEN metrics ELSE Unset
    /\ ctr = IF k > 2 THEN DefaultCtr ELSE Unset
    /\ sources = Unset
    /\ traffic_sources = IF k > 3 THEN DefaultSources ELSE Unset
    /\ top_video = IF k > 4 THEN NoVideoSummary ELSE Unset
    /\ video_launches = <<>>
    /\ outputFile = NoFile

InitCtr == At(2, [rows |-> <<>>])
AllCards == CtrResponses(CardProfiles, MaxCtrRows)
NextCtr == FetchClickThroughRate(AllCards)
SpecCtr == InitCtr /\ [][NextCtr]_vars

InitTraffic == At(3, [rows |-> <<>>])
AllTraffic ==
    TrafficResponses(1..Len(SourceTypes), (0..MaxViews) \cup ExampleViews)
NextTraffic == FetchTrafficSources(AllTraffic)
SpecTraffic == InitTraffic /\ [][NextTraffic]_vars

InitTop == At(4, [rows |-> <<>>])
AllTop == TopResponses(VideoIds, {5, 9}, {0, 3, 15, 90, 100}, {0, 2})
NextTop == FetchTopVideo(AllTop, SnippetResponses)
SpecTop == InitTop /\ [][NextTop]_vars

InitRecent == At(5, [rows |-> <<>>])
AllSearch == SearchResponses(VideoPool, MaxItems)
NextRecent == FetchRecentVideos(AllSearch, StatisticsResponses)
SpecRecent == InitRecent /\ [][NextRecent]_vars

InitChart == \E metrics \in SeriesResponses : At(6, metrics)
NextChart == Export
SpecChart == InitChart /\ [][NextChart]_vars

-----------------------------------------------------------------------------
(* Properties                                                              *)

\* the set of elements of a sequence
Range(seq) == { seq[i] : i \in 1..Len(seq) }

(* C1.  Whatever the traffic-source query answered (rows of any view       *)
(* counts, no rows, rows whose views are all zero, or an error), the four  *)
(* values of the breakdown fetch_traffic_sources returned sum to 100.      *)
C1_BreakdownSumsToHundred ==
    api.traffic # Unset =>
        traffic_sources.search + traffic_sources.browse
            + traffic_sources.external + traffic_sources.other = 100

\* reached: rows were returned, all with zero views, and the breakdown sums
\* to 100
C1_ZeroViewsWitness ==
    /\ api.traffic # Unset
    /\ api.traffic # Failure
    /\ Len(GetRows(api.traffic)) >= 2
    /\ \A k \in 1..Len(GetRows(api.traffic)) : GetRows(api.traffic)[k][2] = 0
    /\ traffic_sources.search + traffic_sources.browse
           + traffic_sources.external + traffic_sources.other = 100

(* C2.  Once authenticate() has returned, the run ends with status 0 and   *)
(* the output document written, whichever queries fail.                    *)
C2_RunCompletesAfterAuthentication ==
    (creds # NoCreds /\ pc = "exited") =>
        (exitStatus = <<0>> /\ outputFile.exists)

\* no client-secret file and no cached token that is valid or can be
\* refreshed
NoConfiguration ==
    /\ ~credentialsFile
    /\ ~(tokenFile.exists
           /\ (tokenFile.valid \/ (tokenFile.expired /\ tokenFile.refresh_token)))

(* C3.  With no client-secret file and no valid or refreshable cached      *)
(* token, the only step the run takes ends it with status 1: no request is *)
(* issued and neither the token cache nor the output document is written.  *)
C3_MissingConfigurationIsFatal ==
    [][NoConfiguration =>
          /\ pc' = "exited"
          /\ exitStatus' = <<1>>
          /\ requests' = <<>>
          /\ tokenFile' = tokenFile
          /\ outputFile' = NoFile]_vars

\* reached: the run ended with status 1 without configuration
C3_FatalWitness ==
    /\ NoConfiguration
    /\ pc = "exited"
    /\ exitStatus = <<1>>
    /\ requests = <<>>
    /\ outputFile = NoFile

\* a 'YYYY-MM-DD' date as the number YYYYMMDD
DateNumber(full_date) == full_date[1] * 10000 + full_date[2] * 100 + full_date[3]

(* C4.  Whatever the order of the items of the search answer, the list     *)
(* fetch_recent_videos returned is ascending by full_date: each entry's    *)
(* full_date is at most the next entry's.                                  *)
C4_LaunchesSortedByFullDate ==
    api.search # Unset =>
        \A i \in 1..(Len(video_launches) - 1) :
            DateNumber(video_launches[i].full_date)
                <= DateNumber(video_launches[i + 1].full_date)

\* reached: the search listed a later video before an earlier one and both
\* are in the returned list
C4_UnorderedInputWitness ==
    /\ api.search # Unset
    /\ api.search # Failure
    /\ Len(GetItems(api.search)) >= 2
    /\ DateNumber(SubSeq(GetItems(api.search)[1].snippet.publishedAt, 1, 3))
          > DateNumber(SubSeq(GetItems(api.search)[2].snippet.publishedAt, 1, 3))
    /\ Len(video_launches) = Len(GetItems(api.search))

\* Python index of the cardClickRate column of a row of the card query
RateColumn ==
    (CHOOSE i \in 1..Len(CtrColumns) : CtrColumns[i] = "cardClickRate") - 1

\* 4.8 as a quotient
FourPointEight == [num |-> 48, den |-> 10]

(* C5.  fetch_click_through_rate returns 4.8 when the query raised an      *)
(* error or returned no rows, and otherwise the average of the rate column *)
(* (cardClickRate) over all rows.                                          *)
C5_CtrIsAverageRateOrFallback ==
    api.ctr # Unset =>
        IF api.ctr = Failure \/ GetRows(api.ctr) = <<>>
        THEN ctr = FourPointEight
        ELSE ctr.num * Len(GetRows(api.ctr))
                = ctr.den * SumCol(GetRows(api.ctr), RateColumn)

(* C6.  The report's avg_view_duration is the duration of the last row of  *)
(* the daily series, whatever the earlier rows hold; for an empty series   *)
(* avg_view_duration and total_watch_hours are 0.                          *)
C6_DurationIsLastRow ==
    outputFile.exists =>
        LET rows == GetRows(api.metrics)
        IN  IF rows # <<>>
            THEN outputFile.avg_view_duration = rows[Len(rows)][4]
            ELSE /\ outputFile.avg_view_duration = 0
                 /\ outputFile.total_watch_hours = 0

\* reached: a report over a series whose first and last durations differ
C6_DifferingRowsWitness ==
    /\ outputFile.exists
    /\ Len(GetRows(api.metrics)) >= 2
    /\ GetRows(api.metrics)[1][4] # GetRows(api.metrics)[Len(GetRows(api.metrics))][4]
    /\ outputFile.avg_view_duration
          = GetRows(api.metrics)[Len(GetRows(api.metrics))][4]

\* max(1, n div 6), written out
Stride(n) == IF n \div 6 >= 1 THEN n \div 6 ELSE 1

(* C7.  For a daily series of n rows the chart holds exactly the rows at   *)
(* the indices 0, N, 2N, ... below n, N = max(1, n div 6), in their order: *)
(* labels and values have that many entries, the i-th value is gained      *)
(* minus lost of the i-th selected row and the i-th label is its date.  So *)
(* 30 rows give 6 points, 3 rows give 3 and no rows give an empty chart.   *)
C7_ChartSelectsEveryNthRow ==
    outputFile.exists =>
        LET rows == GetRows(api.metrics)
            n == Len(rows)
            N == Stride(n)
            picked == { k \in 0..(n - 1) : k % N = 0 }
            chart == outputFile.subscriber_growth_chart
        IN  /\ Len(chart.labels) = Cardinality(picked)
            /\ Len(chart.values) = Cardinality(picked)
            /\ \A i \in 1..Cardinality(picked) :
                  LET row == rows[(i - 1) * N + 1]
                  IN  /\ (i - 1) * N \in picked
                      /\ chart.values[i] = row[5] - row[6]
                      /\ chart.labels[i] = <<MonthAbbr[row[1][2]], row[1][3]>>
            /\ (n = 30 => N = 5 /\ Len(chart.values) = 6)
            /\ (n = 3 => N = 1 /\ Len(chart.values) = 3)
            /\ (n = 0 => chart = [labels |-> <<>>, values |-> <<>>])

\* reached: a report over a series of 30 rows, with 6 points
C7_ThirtyRowsWitness ==
    /\ outputFile.exists
    /\ Len(GetRows(api.metrics)) = 30
    /\ Len(outputFile.subscriber_growth_chart.values) = 6
    /\ outputFile.subscriber_growth_chart.values[2]
          = GetRows(api.metrics)[6][5] - GetRows(api.metrics)[6][6]

\* the rounded values of the example, and what the adjustment makes of them
ExampleRounded == [search |-> 41, browse |-> 31, external |-> 19, other |-> 8]
ExampleAdjusted == [search |-> 42, browse |-> 31, external |-> 19, other |-> 8]

(* C8.  If the rounded percentages do not sum to 100, the whole residual   *)
(* is added to the first bucket, in the order search, browse, external,    *)
(* other, that holds the largest rounded value, and the other three keep   *)
(* their rounded values; if they sum to 100 nothing changes.  Rounded      *)
(* values 41, 31, 19, 8 become 42, 31, 19, 8.                              *)
C8_ResidualGoesToFirstLargest ==
    (api.traffic # Unset /\ api.traffic # Failure) =>
        LET residual == 100 - (sources.search + sources.browse
                                  + sources.external + sources.other)
        IN  /\ residual = 0 => traffic_sources = sources
            /\ residual # 0 =>
                  \E i \in 1..4 :
                      /\ \A j \in 1..4 : sources[Buckets[j]] <= sources[Buckets[i]]
                      /\ \A j \in 1..(i - 1) :
                            sources[Buckets[j]] < sources[Buckets[i]]
                      /\ traffic_sources[Buckets[i]]
                            = sources[Buckets[i]] + residual
                      /\ \A j \in (1..4) \ {i} :
                            traffic_sources[Buckets[j]] = sources[Buckets[j]]
            /\ sources = ExampleRounded => traffic_sources = ExampleAdjusted

\* reached: the rounded values 41, 31, 19, 8, adjusted to 42, 31, 19, 8
C8_ExampleWitness ==
    /\ api.traffic # Unset
    /\ api.traffic # Failure
    /\ sources = ExampleRounded
    /\ traffic_sources.search = 42

\* {title: 'No videos in this period', views: 0, watch_hours: 0, likes: 0}
NoVideosRecord ==
    [title |-> <<"N", "o", " ", "v", "i", "d", "e", "o", "s", " ", "i", "n", " ", "t", "h", "i", "s", " ", "p", "e", "r", "i", "o", "d">>,
     views |-> 0, watch_hours |-> 0, likes |-> 0]

(* C9.  When the top-video query returns no rows, fetch_top_video returns  *)
(* the record {title 'No videos in this period', views 0, watch_hours 0,   *)
(* likes 0} and no title lookup is issued; when it returns a row and the   *)
(* title lookup raises an error, the run goes on and the title is 'Video ' *)
(* followed by the first 10 characters of the video identifier.            *)
C9_TopVideoPlaceholders ==
    (api.top # Unset /\ api.top # Failure) =>
        /\ GetRows(api.top) = <<>> =>
              /\ top_video = NoVideosRecord
              /\ "data:snippet" \notin Range(requests)
              /\ api.snippet = Unset
        /\ (GetRows(api.top) # <<>> /\ api.snippet = Failure) =>
              LET video_id == GetRows(api.top)[1][1]
              IN  /\ pc = "fetch_recent_videos"
                  /\ exitStatus = <<>>
                  /\ Len(top_video.title) = 6 + 10
                  /\ top_video.title
                        = <<"V", "i", "d", "e", "o", " ">> \o
                          [i \in 1..10 |-> video_id[i]]

\* reached: a row was returned, the title lookup failed, and the title is
\* the placeholder of 16 characters
C9_LookupFailedWitness ==
    /\ api.top # Unset
    /\ api.top # Failure
    /\ GetRows(api.top) # <<>>
    /\ api.snippet = Failure
    /\ Len(GetRows(api.top)[1][1]) = 11
    /\ Len(top_video.title) = 16

(* C10, as stated.  For every non-empty daily series the chart has between *)
(* 4 and 7 points.                                                         *)
C10_BetweenFourAndSevenPoints ==
    (outputFile.exists /\ Len(GetRows(api.metrics)) >= 1) =>
        /\ Len(outputFile.subscriber_growth_chart.values) >= 4
        /\ Len(outputFile.subscriber_growth_chart.values) <= 7

(* C10, amended.  For every non-empty daily series of n rows the chart has *)
(* ceil(n / N) points, N = max(1, n div 6): between 1 and 11, and between  *)
(* 6 and 7 when n >= 30.                                                   *)
C10_PointCount ==
    (outputFile.exists /\ Len(GetRows(api.metrics)) >= 1) =>
        LET n == Len(GetRows(api.metrics))
            N == Stride(n)
            points == Len(outputFile.subscriber_growth_chart.values)
        IN  /\ (points - 1) * N < n
            /\ n <= points * N
            /\ points >= 1
            /\ points <= 11
            /\ n >= 30 => (points >= 6 /\ points <= 7)

\* reached: a report over a series of 31 rows, with 7 points
C10_ThirtyOneRowsWitness ==
    /\ outputFile.exists
    /\ Len(GetRows(api.metrics)) = 31
    /\ Len(outputFile.subscriber_growth_chart.values) = 7

====
